---------------------------- MODULE Spec2Model ----------------------------
(***************************************************************************)
(* Model of src/alvarez_salgado_2014/RegressConsensus.py: the two entry    *)
(* points RegressConsensusW (explicit weight) and RegressConsensus         *)
(* (weight derived from the uncertainties sX, sY).                         *)
(*                                                                         *)
(* Numbers.  The program computes in Python floats.  The model computes    *)
(* the same expressions in exact arithmetic: a finite value is a quadratic *)
(* surd (p + q*sqrt(d))/e with integer p, q, d, e (the only irrational the *)
(* slope formulas introduce is one square root), so that "is this divisor  *)
(* zero" is decided exactly.  Values whose exact form leaves that field    *)
(* (a square root of a surd, a Student-t or F probability) are kept as the *)
(* set of values they can take (k = "irr" with a class).  NaN and the      *)
(* infinities are values of their own.                                     *)
(*                                                                         *)
(* Division.  A Python int or float divided by zero raises                 *)
(* ZeroDivisionError; a numpy.float64 operand (RegressConsensus: Wx comes  *)
(* from numpy.var) follows IEEE-754 instead and yields inf or nan.         *)
(* The inputs are Python lists of Python numbers, as in the docstrings.    *)
(*                                                                         *)
(* Rounding.  Exact arithmetic has no rounding error.  Where the program's *)
(* floats round a residual of an exactly collinear data set to something   *)
(* tiny instead of 0.0 (the general slope formula on X = [1, 2, 3, 4],     *)
(* Y = [2, 4, 6, 8]), the program divides by that tiny number where the    *)
(* model divides by zero.  The data enumerated here are small integers, on *)
(* which the closed-form branches (Wx = 0, 1, .5) compute without error.   *)
(* One rounding is modelled, because it decides on which side of 1 a       *)
(* result falls: R divides by the product of two rounded square roots,     *)
(* which on data with R = 1 or R = -1 exactly need not be the exact root   *)
(* of the product (RootsProduct).                                          *)
(***************************************************************************)
EXTENDS Integers, Sequences, FiniteSets, TLC

\* ------------------------------------------------------------------ bounds
\* longest raw input list
MaxLen == 3
\* the uncertainties sX, sY are 0..MaxSigma
MaxSigma == 1
\* the number of calls made on the same X, Y
MaxCalls == 3

\* ------------------------------------------------------------ integer help
Abs(i) == IF i < 0 THEN -i ELSE i

Min(i, j) == IF i < j THEN i ELSE j

\* sign_ of the source, on integers
Sgn(i) == IF i > 0 THEN 1 ELSE IF i < 0 THEN -1 ELSE 0

RECURSIVE GcdNat(_, _)
GcdNat(i, j) == IF j = 0 THEN i ELSE GcdNat(j, i % j)

Gcd(i, j) == GcdNat(Abs(i), Abs(j))

\* floor of the square root of i >= 0, by bisection: lo*lo <= i < hi*hi
RECURSIVE ISqrtIn(_, _, _)
ISqrtIn(i, lo, hi) ==
    IF hi - lo <= 1 THEN lo
    ELSE LET mid == (lo + hi) \div 2
         IN  IF mid * mid <= i THEN ISqrtIn(i, mid, hi) ELSE ISqrtIn(i, lo, mid)

ISqrt(i) == ISqrtIn(i, 0, Min(i, 46340) + 1)

\* the largest k with k*k dividing i (i >= 1)
SqFactor(i) ==
    LET S == {k \in 1 .. ISqrt(i) : i % (k * k) = 0}
    IN  CHOOSE k \in S : \A j \in S : j <= k

\* --------------------------------------------------- exact finite numbers
\* <<p, q, d, e>> stands for (p + q*sqrt(d))/e, e > 0, d squarefree and > 1
\* when q # 0, d = 0 when q = 0 (a rational p/e), gcd(p, q, e) = 1.
\* QRed reduces a value whose d is already squarefree (or 0).
QRedBy(p, q, d, e, g) ==
    <<p \div g, q \div g, IF q = 0 THEN 0 ELSE d, e \div g>>

\* the divisor that reduces p, q, e and makes e positive
SignedGcd(e, g) == IF g = 0 THEN 1 ELSE IF e < 0 THEN -g ELSE g

QRed(p, q, d, e) == QRedBy(p, q, d, e, SignedGcd(e, Gcd(Gcd(p, q), e)))

\* QNorm takes any radicand d >= 0: d = k*k*d1 with d1 squarefree
QNorm(p, q, d, e) ==
    IF q = 0 \/ d = 0 THEN QRed(p, 0, 0, e)
    ELSE LET k  == SqFactor(d)
             d1 == d \div (k * k)
         IN  IF d1 = 1 THEN QRed(p + q * k, 0, 0, e)
             ELSE QRed(p, q * k, d1, e)

QInt(i) == <<i, 0, 0, 1>>

QRat(i, j) == QRed(i, 0, 0, j)

QZero == QInt(0)

QOne == QInt(1)

QHalf == QRat(1, 2)

\* the radicand two operands share (at most one irrational per fit)
QRad(x, y) == IF x[3] = 0 THEN y[3] ELSE x[3]

QAdd(x, y) ==
    QRed(x[1] * y[4] + y[1] * x[4], x[2] * y[4] + y[2] * x[4], QRad(x, y),
         x[4] * y[4])

QNeg(x) == <<-x[1], -x[2], x[3], x[4]>>

QSub(x, y) == QAdd(x, QNeg(y))

QMul(x, y) ==
    QRed(x[1] * y[1] + x[2] * y[2] * QRad(x, y), x[1] * y[2] + x[2] * y[1],
         QRad(x, y), x[4] * y[4])

QIsZero(x) == x[1] = 0 /\ x[2] = 0

QIsRat(x) == x[2] = 0

\* sign of p + q*sqrt(d)
QSign(x) ==
    IF x[2] = 0 THEN Sgn(x[1])
    ELSE IF x[1] = 0 THEN Sgn(x[2])
    ELSE IF Sgn(x[1]) = Sgn(x[2]) THEN Sgn(x[1])
    ELSE IF x[1] * x[1] > x[2] * x[2] * x[3] THEN Sgn(x[1])
    ELSE Sgn(x[2])

\* 1/x for x # 0: e*(p - q*sqrt(d)) / (p*p - q*q*d)
QInv(x) ==
    QRed(x[4] * x[1], -(x[4] * x[2]), x[3], x[1] * x[1] - x[2] * x[2] * x[3])

QDiv(x, y) == QMul(x, QInv(y))

QLess(x, y) == QSign(QSub(x, y)) < 0

QSq(x) == QMul(x, x)

\* sqrt(i/j) for integers i >= 0, j > 0: sqrt(i*j)/j
QSqrtRat(i, j) == QNorm(0, 1, i * j, j)

\* sqrt(x) for a rational x >= 0
QSqrtQ(x) == QSqrtRat(x[1], x[4])

RECURSIVE QSum(_)
QSum(s) == IF s = <<>> THEN QZero ELSE QAdd(Head(s), QSum(Tail(s)))

RECURSIVE SeqSum(_)
SeqSum(s) == IF s = <<>> THEN 0 ELSE Head(s) + SeqSum(Tail(s))


\* ------------------------------------------------ values a float can hold
\* k = "fin": the exact value v.  k = "nan", k = "inf" (v = 1 or -1 gives the
\* sign).  k = "irr": a value known only by its class c:
\*   "pos" in (0, inf)     "neg" in (-inf, 0)
\*   "unit" in (0, 1)      "p12" in (1, 2)
\*   "lohalf" in (0, 1/2)  "hihalf" in (1/2, 1)
\*   "0|nan", "1|nan", "2|nan": what scipy's stdtr/fdtr give at an infinite
\*   argument, the limit value or nan depending on the installed library.
\*   "above1", "below1": within a few units in the last place of 1, above it
\*   or below it; "near1": either of these, or 1.
\* k = "none": a local that was never assigned.
Fin(x) == [k |-> "fin", v |-> x, c |-> "exact"]

NaNf == [k |-> "nan", v |-> QZero, c |-> "nan"]

PInf == [k |-> "inf", v |-> QOne, c |-> "+inf"]

NInf == [k |-> "inf", v |-> QNeg(QOne), c |-> "-inf"]

Irr(c) == [k |-> "irr", v |-> QZero, c |-> c]

NoNum == [k |-> "none", v |-> QZero, c |-> "none"]

IsZeroNum(x) == x.k = "fin" /\ QIsZero(x.v)

\* sign of a value that has one: 1, -1, 0
NumSign(x) ==
    IF x.k = "fin" THEN QSign(x.v)
    ELSE IF x.k = "inf" THEN QSign(x.v)
    ELSE IF x.c = "neg" THEN -1
    ELSE 1

\* x ** .5 for an exact x >= 0
NSqrt(x) ==
    IF QIsZero(x) THEN Fin(QZero)
    ELSE IF QIsRat(x) /\ ISqrt(x[1] * x[4]) * ISqrt(x[1] * x[4]) = x[1] * x[4]
         THEN Fin(QRat(ISqrt(x[1] * x[4]), x[4]))
    ELSE Irr("pos")

\* x / y for exact x and a value y # 0 that is exact or of class "pos"
NDivPos(x, y) ==
    IF y.k = "fin" THEN Fin(QDiv(x, y.v))
    ELSE IF QIsZero(x) THEN Fin(QZero)
    ELSE IF QSign(x) > 0 THEN Irr("pos")
    ELSE Irr("neg")

\* numpy.float64 division x / y by y = 0 (IEEE-754): inf, -inf or nan
NpDivZero(x) ==
    IF QIsZero(x) THEN NaNf ELSE IF QSign(x) > 0 THEN PInf ELSE NInf

\* scipy.special.stdtr(nu, t), nu >= 1: Student-t distribution function
stdtr(nu, t) ==
    IF nu <= 0 \/ t.k = "nan" THEN NaNf
    ELSE IF t.k = "inf" THEN (IF NumSign(t) > 0 THEN Irr("1|nan") ELSE Irr("0|nan"))
    ELSE IF NumSign(t) = 0 THEN Fin(QHalf)
    ELSE IF NumSign(t) > 0 THEN Irr("hihalf")
    ELSE Irr("lohalf")

\* scipy.special.fdtr(dfn, dfd, x): F distribution function
fdtr(dfn, dfd, x) ==
    IF dfn <= 0 \/ dfd <= 0 \/ x.k = "nan" THEN NaNf
    ELSE IF x.k = "inf" THEN (IF NumSign(x) > 0 THEN Irr("1|nan") ELSE NaNf)
    ELSE IF NumSign(x) < 0 THEN NaNf
    ELSE IF NumSign(x) = 0 THEN Fin(QZero)
    ELSE Irr("unit")

\* 1 - p for a value p of a distribution function
OneMinus(p) ==
    IF p.k = "fin" THEN Fin(QSub(QOne, p.v))
    ELSE IF p.k = "nan" THEN NaNf
    ELSE IF p.c = "unit" THEN Irr("unit")
    ELSE IF p.c = "hihalf" THEN Irr("lohalf")
    ELSE IF p.c = "lohalf" THEN Irr("hihalf")
    ELSE IF p.c = "1|nan" THEN Irr("0|nan")
    ELSE Irr("1|nan")

\* 2 * p for p = 1 - (a value of a distribution function)
Twice(p) ==
    IF p.k = "fin" THEN Fin(QMul(QInt(2), p.v))
    ELSE IF p.k = "nan" THEN NaNf
    ELSE IF p.c = "lohalf" THEN Irr("unit")
    ELSE IF p.c = "hihalf" THEN Irr("p12")
    ELSE IF p.c = "0|nan" THEN Irr("0|nan")
    ELSE Irr("2|nan")

\* ------------------------------------------------------------- the inputs
\* NaN among the data: an element that is not a number (float("nan"))
NaN == -1

is_nan(num) == num = NaN

\* an element that is itself a list, such as [1, 2]
SubList == -2

\* an element that is a sequence of another kind, such as the tuple (1, 2)
SubTuple == -3

\* isinstance(ix, list)
IsList(e) == e = SubList

\* an element that sum() cannot add to a number
NotNumber(e) == e = SubList \/ e = SubTuple

\* the data of the exhaustively enumerated lists: two numbers and NaN
Vals == {NaN, 0, 1}

RECURSIVE SeqsOfLen(_, _)
SeqsOfLen(S, l) ==
    IF l = 0 THEN {<<>>}
    ELSE {Append(s, v) : s \in SeqsOfLen(S, l - 1), v \in S}

Lists == UNION {SeqsOfLen(Vals, l) : l \in 0 .. MaxLen}

\* the worked inputs of the specification's testable properties, and data
\* with more than two distinct values: uncorrelated, falling, all X equal,
\* a NaN pair in the middle of a good fit, a line that misses the origin
Examples ==
    { <<<<1, 2, 3, 4>>, <<2, 4, 6, 8>>>>,
      <<<<1, 2>>, <<3, 5>>>>,
      <<<<1, 2, 3>>, <<1, 2>>>>,
      <<<<1, 1, 1>>, <<1, 2, 4>>>>,
      <<<<0, 1, 2>>, <<0, 1, 0>>>>,
      <<<<0, 1, 2>>, <<2, 0, 1>>>>,
      <<<<0, 1, 2>>, <<0, 1, 1>>>>,
      <<<<0, 1, NaN, 2>>, <<0, 2, 1, 1>>>>,
      <<<<0, 1, 2, 3>>, <<0, 2, 1, 3>>>>,
      <<<<0, 1, 2>>, <<1, 2, 3>>>> }

\* weights given to RegressConsensusW: below, inside and above [0, 1]
\* and a weight that is not a number (float("nan"))
\* lists that hold a number and nested sequences, from one element up
NestedLists ==
    {x \in UNION {SeqsOfLen({1, SubList, SubTuple}, l) : l \in 1 .. MaxLen} :
        \E i \in 1 .. Len(x) : NotNumber(x[i])}

\* the numbers 1 .. l, with a NaN in place of the k-th when k > 0
Partner(l, k) == [i \in 1 .. l |-> IF i = k THEN NaN ELSE i]

\* a list with nested sequences as X or as Y, the other list being numbers
\* with at most one NaN
NestedPairs ==
    UNION {{<<x, Partner(Len(x), k)>>, <<Partner(Len(x), k), x>>} :
             x \in NestedLists, k \in 0 .. MaxLen}

WxVals ==
    {Fin(QRat(-1, 2)), Fin(QZero), Fin(QRat(1, 4)), Fin(QHalf), Fin(QOne),
     Fin(QRat(3, 2)), NaNf}

Sigmas == 0 .. MaxSigma

Flags == {0, 1, 2}

\* ----------------------------------------------------------- what a call gives
\* the 12 fields of the returned dict
Fields ==
    {"slope", "sse", "intercept", "ise", "r2", "r2_adj", "F", "pvalue",
     "stvalue", "itvalue", "spvalue", "ipvalue"}

NoOut == [f \in Fields |-> NoNum]

\* a raise: exc the exception, at the statement (or, for ValueError, the
\* check) that raised, stage "validation" (lines 82-112) or "statistics"
\* (lines 123-245); rmse is the local rmse when it was assigned before
Raise(exc, at, stage, rmse) ==
    [kind |-> "raise", exc |-> exc, at |-> at, stage |-> stage,
     rmse |-> rmse, out |-> NoOut]

Return(out, rmse) ==
    [kind |-> "return", exc |-> "none", at |-> "none", stage |-> "done",
     rmse |-> rmse, out |-> out]

\* ----------------------------------------------------------------- validation
\* a different rule, for comparison with TooFew: the count taken on the
\* numbers only, NaN elements left out
TooFewNumbers(X, Y) ==
    \/ Len(SelectSeq(X, LAMBDA v : ~is_nan(v))) < 2
    \/ Len(SelectSeq(Y, LAMBDA v : ~is_nan(v))) < 2

\* any(isinstance(ix, list) for ix in X)
HasSublist(s) == \E i \in 1 .. Len(s) : IsList(s[i])

\* if (len(X)<2) or (len(Y)<2)
TooFew(X, Y) == Len(X) < 2 \/ Len(Y) < 2

\* a different rule, for comparison with SameLength: a longer X is let through
AtLeastAsLong(X, Y) == Len(X) >= Len(Y)

\* len(X)==len(Y)
SameLength(X, Y) == Len(X) = Len(Y)

\* (Wx>1) or (Wx<0): both comparisons are False for a NaN
WxOutOfRange(Wx) ==
    Wx.k = "fin" /\ (QLess(QOne, Wx.v) \/ QLess(Wx.v, QZero))

\* a different rule, for comparison with InterceptOK: any flag from 0 up
InterceptNotNegative(intercept) == intercept >= 0

\* (intercept==1) or (intercept==0)
InterceptOK(intercept) == intercept = 1 \/ intercept = 0

\* a different rule, for comparison with ValidateW: the flag checked before
\* the weight
ValidateWFlagFirst(X, Y, Wx, intercept) ==
    IF HasSublist(X) THEN "flatX"
    ELSE IF HasSublist(Y) THEN "flatY"
    ELSE IF TooFew(X, Y) THEN "obs"
    ELSE IF ~SameLength(X, Y) THEN "equal"
    ELSE IF ~InterceptOK(intercept) THEN "intercept"
    ELSE IF WxOutOfRange(Wx) THEN "Wx"
    ELSE "ok"

\* the checks of RegressConsensusW in their order; "ok" when all pass
ValidateW(X, Y, Wx, intercept) ==
    IF HasSublist(X) THEN "flatX"
    ELSE IF HasSublist(Y) THEN "flatY"
    ELSE IF TooFew(X, Y) THEN "obs"
    ELSE IF ~SameLength(X, Y) THEN "equal"
    ELSE IF WxOutOfRange(Wx) THEN "Wx"
    ELSE IF ~InterceptOK(intercept) THEN "intercept"
    ELSE "ok"

\* the checks of RegressConsensus in their order (no check of a weight)
ValidateU(X, Y, intercept) ==
    IF HasSublist(X) THEN "flatX"
    ELSE IF HasSublist(Y) THEN "flatY"
    ELSE IF TooFew(X, Y) THEN "obs"
    ELSE IF ~SameLength(X, Y) THEN "equal"
    ELSE IF ~InterceptOK(intercept) THEN "intercept"
    ELSE "ok"

\* ------------------------------------------------------------------- cleaning
\* a different rule, for comparison with Boo: a pair is kept when either of
\* its values is a number
BooEither(X, Y) ==
    [i \in 1 .. Min(Len(X), Len(Y)) |-> (~is_nan(X[i])) \/ (~is_nan(Y[i]))]

\* boo = [(not i) and (not j) for i, j in zip(X_isnan, Y_isnan)]
Boo(X, Y) ==
    [i \in 1 .. Min(Len(X), Len(Y)) |-> (~is_nan(X[i])) /\ (~is_nan(Y[i]))]

\* [v for (v, b) in zip(s, boo) if b]
RECURSIVE Keep(_, _)
Keep(s, boo) ==
    IF Len(s) = 0 \/ Len(boo) = 0 THEN <<>>
    ELSE (IF Head(boo) THEN <<Head(s)>> ELSE <<>>) \o Keep(Tail(s), Tail(boo))

CleanX(X, Y) == Keep(X, Boo(X, Y))

CleanY(X, Y) == Keep(Y, Boo(X, Y))

\* ------------------------------------------------------------ the fitting core
\* The statements after the cleaning are the same in both entry points.  They
\* are modelled once, as a chain of operators in which each hands what it has
\* computed to the next, in the order of the statements and with the
\* exception each statement can raise.
\* Wx==0, Wx==1, Wx==.5
IsWx(Wx, w) == Wx.k = "fin" /\ Wx.v = w

\* if intercept==0: ... elif intercept==1: ...   (no else)
Branch(intercept) ==
    IF intercept = 0 THEN "origin" ELSE IF intercept = 1 THEN "free" ELSE "none"

\* the slope b of the "other" weights with the intercept forced to 0:
\*   (1 - 2 * Wx) / (2 - 2 * Wx) * (Sxy / Sx2) +
\*   sign_(R) * (((1 - 2 * Wx) * Sxy) ** 2 + 4 * Wx * Wy * (Sx2 * Sy2)) ** .5 /
\*   (2 * Wy * Sx2)
SlopeOriginGeneral(Wx, Wy, sgn, Sx2, Sy2, Sxy) ==
    QAdd(QMul(QDiv(QSub(QOne, QMul(QInt(2), Wx)),
                   QSub(QInt(2), QMul(QInt(2), Wx))),
              QRat(Sxy, Sx2)),
         QDiv(QMul(QInt(sgn),
                   QSqrtQ(QAdd(QSq(QMul(QSub(QOne, QMul(QInt(2), Wx)),
                                        QInt(Sxy))),
                               QMul(QMul(QMul(QInt(4), Wx), Wy),
                                    QInt(Sx2 * Sy2))))),
              QMul(QMul(QInt(2), Wy), QInt(Sx2))))

\* a different rule, for comparison with SlopeFreeGeneral: 1 - Wx in place of
\* 1 - 2 * Wx in the first term
SlopeFreeSkewed(Wx, Wy, sgn, num, den, deny) ==
    QAdd(QDiv(QMul(QDiv(QSub(QOne, Wx), QMul(QInt(2), Wy)),
                   QInt(num)),
              QInt(den)),
         QDiv(QMul(QInt(sgn),
                   QSqrtQ(QAdd(QSq(QMul(QSub(QMul(QInt(2), Wx), QOne),
                                        QInt(num))),
                               QMul(QMul(QMul(QMul(QInt(4), Wx), Wy),
                                         QInt(den)),
                                    QInt(deny))))),
              QMul(QMul(QInt(2), Wy), QInt(den))))

\* the slope b of the "other" weights with the intercept estimated:
\*   ((1 - 2 * Wx) / (2 * Wy)) * num / den +
\*   sign_(R) * (((2 * Wx - 1) * num) ** 2 + 4 * Wx * Wy * den * deny) ** .5 /
\*   (2 * Wy * den)
SlopeFreeGeneral(Wx, Wy, sgn, num, den, deny) ==
    QAdd(QDiv(QMul(QDiv(QSub(QOne, QMul(QInt(2), Wx)), QMul(QInt(2), Wy)),
                   QInt(num)),
              QInt(den)),
         QDiv(QMul(QInt(sgn),
                   QSqrtQ(QAdd(QSq(QMul(QSub(QMul(QInt(2), Wx), QOne),
                                        QInt(num))),
                               QMul(QMul(QMul(QMul(QInt(4), Wx), Wy),
                                         QInt(den)),
                                    QInt(deny))))),
              QMul(QMul(QInt(2), Wy), QInt(den))))

\* n and the sums of the cleaned X, Y
Sums(X, Y) ==
    [X |-> X, Y |-> Y, n |-> Len(X), Sx |-> SeqSum(X), Sy |-> SeqSum(Y),
     Sx2 |-> SeqSum([i \in 1 .. Len(X) |-> X[i] * X[i]]),
     Sy2 |-> SeqSum([i \in 1 .. Len(Y) |-> Y[i] * Y[i]]),
     Sxy |-> SeqSum([i \in 1 .. Len(X) |-> X[i] * Y[i]])]

\* a different rule, for comparison with Nu: n - 1 whatever the flag
NuAnyFlag(n, intercept) == n - 1

\* nu = n - 1, and one less if the intercept is estimated too
Nu(n, intercept) == IF intercept = 1 THEN (n - 1) - 1 ELSE n - 1

\* the means, and num, den and n * Sy2 - Sy ** 2 (deny)
Moments(s) ==
    s @@ [mx   |-> QRat(s.Sx, s.n),
          my   |-> QRat(s.Sy, s.n),
          num  |-> s.n * s.Sxy - s.Sx * s.Sy,
          den  |-> s.n * s.Sx2 - s.Sx * s.Sx,
          deny |-> s.n * s.Sy2 - s.Sy * s.Sy]

\* R = num / ((den ** .5) * ((n * Sy2 - Sy ** 2) ** .5))
Corr(s) == QDiv(QInt(s.num), QSqrtRat(s.den * s.deny, 1))

\* (den ** .5) * ((n * Sy2 - Sy ** 2) ** .5) where den * deny is a perfect
\* square: the float product of the two rounded roots is the exact root, or
\* falls above or below it.  The IEEE-754 double values:
\*   2 ** .5 * 2 ** .5 = 2.0000000000000004, 20 ** .5 * 80 ** .5 =
\*   40.00000000000001, 3 ** .5 * 3 ** .5 = 2.9999999999999996,
\*   6 ** .5 * 6 ** .5 = 5.999999999999999; the root of a perfect square is
\*   exact.  For other radicands the side is not known here.
RootsProduct(den, deny) ==
    IF ISqrt(den) * ISqrt(den) = den /\ ISqrt(deny) * ISqrt(deny) = deny
    THEN "exact"
    ELSE IF <<den, deny>> \in {<<2, 2>>, <<20, 80>>} THEN "above"
    ELSE IF <<den, deny>> \in {<<3, 3>>, <<6, 6>>} THEN "below"
    ELSE "either"

\* r2 = R ** 2 as a float, r2 being the exact square: where R is 1 or -1
\* exactly, the divisor of R decides the side of 1 on which r2 falls
RSquared(s, r2) ==
    IF s.num * s.num # s.den * s.deny THEN Fin(r2)
    ELSE IF RootsProduct(s.den, s.deny) = "exact" THEN Fin(QOne)
    ELSE IF RootsProduct(s.den, s.deny) = "above" THEN Irr("below1")
    ELSE IF RootsProduct(s.den, s.deny) = "below" THEN Irr("above1")
    ELSE Irr("near1")

\* the last else of the slope: Wx is none of the weights tested with ==
General(Wx, intercept) ==
    IF Branch(intercept) = "origin"
    THEN ~IsWx(Wx, QZero) /\ ~IsWx(Wx, QOne)
    ELSE ~IsWx(Wx, QZero) /\ ~IsWx(Wx, QOne) /\ ~IsWx(Wx, QHalf)

\* the slope's divisor is zero: Sxy / Sx2, Sy2 / Sxy, deny / num
SlopeZeroDiv(s, Wx, intercept) ==
    IF Branch(intercept) = "origin"
    THEN (IsWx(Wx, QZero) /\ s.Sx2 = 0) \/ (IsWx(Wx, QOne) /\ s.Sxy = 0)
    ELSE IsWx(Wx, QOne) /\ s.num = 0

\* a different rule, for comparison with Slope: Wx = 0 takes the slope of the
\* line through the origin whatever the flag
SlopeOriginAtZero(s, R, Wx, intercept) ==
    IF IsWx(Wx, QZero) THEN QRat(s.Sxy, s.Sx2)
    ELSE IF Branch(intercept) = "origin"
    THEN IF IsWx(Wx, QOne) THEN QRat(QSign(R) * s.Sy2, s.Sxy)
         ELSE SlopeOriginGeneral(Wx.v, QSub(QOne, Wx.v), QSign(R),
                                 s.Sx2, s.Sy2, s.Sxy)
    ELSE IF IsWx(Wx, QOne) THEN QRat(s.deny, s.num)
         ELSE IF IsWx(Wx, QHalf)
              THEN QMul(QInt(QSign(R)), QSqrtRat(s.deny, s.den))
         ELSE SlopeFreeGeneral(Wx.v, QSub(QOne, Wx.v), QSign(R),
                               s.num, s.den, s.deny)

\* a different rule, for comparison with Slope: Wx = 1 with the intercept
\* estimated takes the slope of the regression of Y on X, not inverted
SlopeDirectAtOne(s, R, Wx, intercept) ==
    IF Branch(intercept) = "origin"
    THEN IF IsWx(Wx, QZero) THEN QRat(s.Sxy, s.Sx2)
         ELSE IF IsWx(Wx, QOne) THEN QRat(QSign(R) * s.Sy2, s.Sxy)
         ELSE SlopeOriginGeneral(Wx.v, QSub(QOne, Wx.v), QSign(R),
                                 s.Sx2, s.Sy2, s.Sxy)
    ELSE IF IsWx(Wx, QZero) \/ IsWx(Wx, QOne) THEN QRat(s.num, s.den)
         ELSE IF IsWx(Wx, QHalf)
              THEN QMul(QInt(QSign(R)), QSqrtRat(s.deny, s.den))
         ELSE SlopeFreeGeneral(Wx.v, QSub(QOne, Wx.v), QSign(R),
                               s.num, s.den, s.deny)

\* a different rule, for comparison with Slope: Wx = .5 with the intercept
\* estimated takes the square root without the sign of R
SlopeUnsignedAtHalf(s, R, Wx, intercept) ==
    IF Branch(intercept) = "origin"
    THEN IF IsWx(Wx, QZero) THEN QRat(s.Sxy, s.Sx2)
         ELSE IF IsWx(Wx, QOne) THEN QRat(QSign(R) * s.Sy2, s.Sxy)
         ELSE SlopeOriginGeneral(Wx.v, QSub(QOne, Wx.v), QSign(R),
                                 s.Sx2, s.Sy2, s.Sxy)
    ELSE IF IsWx(Wx, QZero) THEN QRat(s.num, s.den)
         ELSE IF IsWx(Wx, QOne) THEN QRat(s.deny, s.num)
         ELSE IF IsWx(Wx, QHalf) THEN QSqrtRat(s.deny, s.den)
         ELSE SlopeFreeGeneral(Wx.v, QSub(QOne, Wx.v), QSign(R),
                               s.num, s.den, s.deny)

\* a different rule, for comparison with Slope: the last else of the slope
\* with the intercept estimated takes the positive root whatever the sign
\* of R
SlopePositiveRoot(s, R, Wx, intercept) ==
    IF Branch(intercept) = "origin"
    THEN IF IsWx(Wx, QZero) THEN QRat(s.Sxy, s.Sx2)
         ELSE IF IsWx(Wx, QOne) THEN QRat(QSign(R) * s.Sy2, s.Sxy)
         ELSE SlopeOriginGeneral(Wx.v, QSub(QOne, Wx.v), QSign(R),
                                 s.Sx2, s.Sy2, s.Sxy)
    ELSE IF IsWx(Wx, QZero) THEN QRat(s.num, s.den)
         ELSE IF IsWx(Wx, QOne) THEN QRat(s.deny, s.num)
         ELSE IF IsWx(Wx, QHalf)
              THEN QMul(QInt(QSign(R)), QSqrtRat(s.deny, s.den))
         ELSE SlopeFreeGeneral(Wx.v, QSub(QOne, Wx.v), 1,
                               s.num, s.den, s.deny)

\* b, by the branch of the flag and of the weight
Slope(s, R, Wx, intercept) ==
    IF Branch(intercept) = "origin"
    THEN IF IsWx(Wx, QZero) THEN QRat(s.Sxy, s.Sx2)
         ELSE IF IsWx(Wx, QOne) THEN QRat(QSign(R) * s.Sy2, s.Sxy)
         ELSE SlopeOriginGeneral(Wx.v, QSub(QOne, Wx.v), QSign(R),
                                 s.Sx2, s.Sy2, s.Sxy)
    ELSE IF IsWx(Wx, QZero) THEN QRat(s.num, s.den)
         ELSE IF IsWx(Wx, QOne) THEN QRat(s.deny, s.num)
         ELSE IF IsWx(Wx, QHalf)
              THEN QMul(QInt(QSign(R)), QSqrtRat(s.deny, s.den))
         ELSE SlopeFreeGeneral(Wx.v, QSub(QOne, Wx.v), QSign(R),
                               s.num, s.den, s.deny)

\* a different rule, for comparison with Intercept: the estimated intercept
\* taken as the mean of Y alone
InterceptAtMeanY(s, b, intercept) ==
    IF Branch(intercept) = "origin" THEN QZero ELSE s.my

\* a = 0, or a = my - b * mx
Intercept(s, b, intercept) ==
    IF Branch(intercept) = "origin" THEN QZero
    ELSE QSub(s.my, QMul(b, s.mx))

\* yhat = [a + b * x for x in X]
Yhat(X, a, b) == [i \in 1 .. Len(X) |-> QAdd(a, QMul(b, QInt(X[i])))]

\* sum([v ** 2 for v in r]) with r = [y - yh for y, yh in zip(Y, yhat)]
SumSqResiduals(Y, yhat) ==
    QSum([i \in 1 .. Len(Y) |-> QSq(QSub(QInt(Y[i]), yhat[i]))])

\* a different rule, for comparison with SumSqRegression: the sum of the
\* squares of yhat, not taken about the mean of Y
SumSqFitted(yhat, my) == QSum([i \in 1 .. Len(yhat) |-> QSq(yhat[i])])

\* RSS: sum([v ** 2 for v in yhat_minus_ymean])
SumSqRegression(yhat, my) ==
    QSum([i \in 1 .. Len(yhat) |-> QSq(QSub(yhat[i], my))])

\* rmse = norm(r)/sqrt(nu) if nu != 0, else float("inf")
Rmse(ssr, nu) == IF nu # 0 THEN NSqrt(QDiv(ssr, QInt(nu))) ELSE PInf

\* s2 = rmse ** 2
ErrVar(ssr, nu) == IF nu # 0 THEN Fin(QDiv(ssr, QInt(nu))) ELSE PInf

\* r2_adj = 1 - (1 - r2) * ((n - 1) / (n - k - 1)), k = 1
AdjR2(r2, n) == QSub(QOne, QMul(QSub(QOne, r2), QRat(n - 1, n - 1 - 1)))

\* r2_adj of the float r2: n - 1 > 0 and n - k - 1 > 0 keep it on the side of
\* 1 where r2 is
AdjR2Float(r2f, n) == IF r2f.k = "fin" THEN Fin(AdjR2(r2f.v, n)) ELSE r2f

\* a different rule, for comparison with Dof1: n - nu - 1 whatever the flag
Dof1AnyFlag(n, nu, intercept) == n - nu - 1

\* n - nu - 1 with the intercept estimated, n - nu without
Dof1(n, nu, intercept) == IF intercept = 1 THEN n - nu - 1 ELSE n - nu

\* F = Inf if s2==0, else (RSS / dof1) / s2
FStat(RSS, dof1, s2) ==
    IF IsZeroNum(s2) THEN PInf
    ELSE IF s2.k = "inf" THEN Fin(QZero)
    ELSE Fin(QDiv(QDiv(RSS, QInt(dof1)), s2.v))

\* sb = (n * s2 / den) ** .5 with s2 = sum(r * r) / nu
StdErrSlope(s, ssr, nu) ==
    NSqrt(QDiv(QMul(QInt(s.n), QDiv(ssr, QInt(nu))), QInt(s.den)))

\* a different rule, for comparison with StdErrIntercept: the standard error
\* of an estimated intercept whatever the flag
StdErrInterceptAnyFlag(s, ssr, nu, intercept) ==
    NSqrt(QDiv(QMul(QInt(s.Sx2), QDiv(ssr, QInt(nu))), QInt(s.den)))

\* sa = (Sx2 * s2 / den) ** .5, or 0
StdErrIntercept(s, ssr, nu, intercept) ==
    IF intercept = 1
    THEN NSqrt(QDiv(QMul(QInt(s.Sx2), QDiv(ssr, QInt(nu))), QInt(s.den)))
    ELSE Fin(QZero)

\* b/sb, a/sa where the division does not raise
TValue(x, sx) == IF IsZeroNum(sx) THEN NpDivZero(x) ELSE NDivPos(x, sx)

\* the result when b is nan (Wx is nan)
NaNResult(intercept, nu, r2, r2_adj) ==
    [slope |-> NaNf, sse |-> NaNf,
     intercept |-> IF intercept = 1 THEN NaNf ELSE Fin(QZero),
     ise |-> IF intercept = 1 THEN NaNf ELSE Fin(QZero),
     r2 |-> r2, r2_adj |-> r2_adj, F |-> NaNf, pvalue |-> NaNf,
     stvalue |-> NaNf,
     itvalue |-> IF intercept = 1 THEN NaNf ELSE PInf,
     spvalue |-> NaNf,
     ipvalue |-> IF intercept = 1 THEN NaNf
                 ELSE Twice(OneMinus(stdtr(nu, PInf)))]

\* The statements from "Standard error of the slope" to return(out), given
\* what was computed before them; bnp says that b is a numpy.float64, whose
\* division by 0.0 gives inf or nan instead of raising.
FitTests(s, nu, intercept, b, a, bnp, rmse, r2, F, sb, sa) ==
    \* s2 = sum([i * i for i in r]) / nu   (nu = 0 needs n = 2, refused before)
    IF nu = 0 THEN Raise("ZeroDivisionError", "s2", "statistics", rmse)
    \* tb = b/sb
    ELSE IF IsZeroNum(sb) /\ ~bnp
         THEN Raise("ZeroDivisionError", "tb", "statistics", rmse)
    \* ta = a/sa
    ELSE IF intercept = 1 /\ IsZeroNum(sa) /\ ~bnp
         THEN Raise("ZeroDivisionError", "ta", "statistics", rmse)
    ELSE Return([slope |-> Fin(b), sse |-> sb, intercept |-> Fin(a),
                 ise |-> sa, r2 |-> RSquared(s, r2),
                 r2_adj |-> AdjR2Float(RSquared(s, r2), s.n),
                 F |-> F,
                 pvalue |-> OneMinus(fdtr(Dof1(s.n, nu, intercept), nu, F)),
                 stvalue |-> TValue(b, sb),
                 itvalue |-> IF intercept = 1 THEN TValue(a, sa) ELSE PInf,
                 spvalue |-> Twice(OneMinus(stdtr(nu, TValue(b, sb)))),
                 ipvalue |-> Twice(OneMinus(stdtr(nu,
                     IF intercept = 1 THEN TValue(a, sa) ELSE PInf)))],
                rmse)

\* The statements from rmse to the F statistic, given the sums of squares
\* ssr (of the residuals) and RSS (of the regression).
FitStats(s, nu, intercept, R, b, a, bnp, ssr, RSS) ==
    \* r2_adj = 1 - (1 - r2) * ((n - 1) / (n - k - 1))
    IF s.n - 1 - 1 = 0
    THEN Raise("ZeroDivisionError", "r2_adj", "statistics", Rmse(ssr, nu))
    \* F = (RSS / (n - nu - 1)) / s2
    ELSE IF ~IsZeroNum(ErrVar(ssr, nu)) /\ Dof1(s.n, nu, intercept) = 0
         THEN Raise("ZeroDivisionError", "F", "statistics", Rmse(ssr, nu))
    ELSE FitTests(s, nu, intercept, b, a, bnp, Rmse(ssr, nu), QSq(R),
                  FStat(RSS, Dof1(s.n, nu, intercept), ErrVar(ssr, nu)),
                  StdErrSlope(s, ssr, nu),
                  StdErrIntercept(s, ssr, nu, intercept))

\* The statements from yhat on, given the line a + b * x.
FitLine(s, nu, intercept, R, b, a, bnp, yhat) ==
    FitStats(s, nu, intercept, R, b, a, bnp, SumSqResiduals(s.Y, yhat),
             SumSqRegression(yhat, s.my))

\* The statements from yhat on when b is nan: every float computed from b is
\* nan, and the integer division of r2_adj still raises.
FitNaN(s, nu, intercept, R) ==
    IF s.n - 1 - 1 = 0
    THEN Raise("ZeroDivisionError", "r2_adj", "statistics",
               IF nu # 0 THEN NaNf ELSE PInf)
    ELSE Return(NaNResult(intercept, nu, RSquared(s, QSq(R)),
                          AdjR2Float(RSquared(s, QSq(R)), s.n)),
                NaNf)

\* The statements from Wy on, given R.
FitSlope(s, nu, intercept, R, bnp, b) ==
    FitLine(s, nu, intercept, R, b, Intercept(s, b, intercept), bnp,
            Yhat(s.X, Intercept(s, b, intercept), b))

\* The statements from R on, given the sums and moments s.
FitR(s, Wx, wxnp, intercept) ==
    \* R = num / ((den ** .5) * ((n * Sy2 - Sy ** 2) ** .5))
    IF s.den = 0 \/ s.deny = 0
    THEN Raise("ZeroDivisionError", "R", "statistics", NoNum)
    \* neither branch ran: a and b are unbound at yhat
    ELSE IF Branch(intercept) = "none"
         THEN Raise("NameError", "yhat", "statistics", NoNum)
    ELSE IF SlopeZeroDiv(s, Wx, intercept)
         THEN Raise("ZeroDivisionError", "b", "statistics", NoNum)
    ELSE IF General(Wx, intercept) /\ Wx.k = "nan"
         THEN FitNaN(s, Nu(s.n, intercept), intercept, Corr(s))
    \* b is a numpy.float64 exactly when it is computed from such a Wx
    ELSE FitSlope(s, Nu(s.n, intercept), intercept, Corr(s),
                  wxnp /\ General(Wx, intercept),
                  Slope(s, Corr(s), Wx, intercept))

\* Lines 124-261 of RegressConsensusW and 362-500 of RegressConsensus are the
\* same statements: Fit is those statements on the cleaned X, Y.  Wx is the
\* weight as a value (Fin of a rational, or NaNf); wxnp says that Wx is a
\* numpy.float64 (RegressConsensus), so that what is computed from it is too.
Fit(X, Y, Wx, wxnp, intercept) ==
    \* Sx = sum(X): int + tuple
    IF \E i \in 1 .. Len(X) : NotNumber(X[i])
    THEN Raise("TypeError", "Sx", "statistics", NoNum)
    \* Sy = sum(Y)
    ELSE IF \E i \in 1 .. Len(Y) : NotNumber(Y[i])
    THEN Raise("TypeError", "Sy", "statistics", NoNum)
    \* mx = sum(X)/len(X)
    ELSE IF Len(X) = 0 THEN Raise("ZeroDivisionError", "mx", "statistics", NoNum)
    ELSE FitR(Moments(Sums(X, Y)), Wx, wxnp, intercept)

\* a different rule, for comparison with Var: the mean of the squares, not
\* taken about the mean
MeanSquare(s) ==
    QDiv(QSum([i \in 1 .. Len(s) |-> QMul(QInt(s[i]), QInt(s[i]))]),
         QInt(Len(s)))

\* ------------------------------------------------------------ the entry points
\* numpy.var: the mean of the squared deviations from the mean
Var(s) ==
    LET n == Len(s)
        m == QRat(SeqSum(s), n)
    IN  QDiv(QSum([i \in 1 .. n |->
                     QMul(QSub(QInt(s[i]), m), QSub(QInt(s[i]), m))]),
             QInt(n))

\* sX ** 2 / var(X) as numpy.float64
SigmaRatio(sigma, v) ==
    IF QIsZero(v) THEN (IF sigma = 0 THEN NaNf ELSE PInf)
    ELSE Fin(QDiv(QInt(sigma * sigma), v))

\* tx / (tx + ty) in numpy.float64 arithmetic
WeightOf(tx, ty) ==
    IF tx.k # "fin" \/ ty.k = "nan" THEN NaNf
    ELSE IF ty.k = "inf" THEN Fin(QZero)
    ELSE IF QIsZero(QAdd(tx.v, ty.v)) THEN NaNf
    ELSE Fin(QDiv(tx.v, QAdd(tx.v, ty.v)))

\* Wx = (sX ** 2 / var(X)) / (sX ** 2 / var(X) + sY ** 2 / var(Y))
WeightFromSigma(X, Y, sX, sY) ==
    WeightOf(SigmaRatio(sX, Var(X)), SigmaRatio(sY, Var(Y)))

RegressConsensusW(X, Y, Wx, intercept) ==
    LET v == ValidateW(X, Y, Wx, intercept)
    IN  IF v # "ok" THEN Raise("ValueError", v, "validation", NoNum)
        ELSE Fit(CleanX(X, Y), CleanY(X, Y), Wx, FALSE, intercept)

\* RegressConsensusW given its weight as a numpy.float64: isinstance(Wx, float)
\* holds for it, so it is not coerced and what is computed from it is
\* numpy.float64 too
RegressConsensusWnp(X, Y, Wx, intercept) ==
    LET v == ValidateW(X, Y, Wx, intercept)
    IN  IF v # "ok" THEN Raise("ValueError", v, "validation", NoNum)
        ELSE Fit(CleanX(X, Y), CleanY(X, Y), Wx, TRUE, intercept)

RegressConsensus(X, Y, sX, sY, intercept) ==
    LET v  == ValidateU(X, Y, intercept)
        Xc == CleanX(X, Y)
        Yc == CleanY(X, Y)
    IN  IF v # "ok" THEN Raise("ValueError", v, "validation", NoNum)
        ELSE Fit(Xc, Yc,
                 IF Len(Xc) = 0 THEN NaNf ELSE WeightFromSigma(Xc, Yc, sX, sY),
                 TRUE, intercept)

\* ------------------------------------------------------------------ the system
\* One call: the caller's X, Y and intercept flag, the entry point called
\* (entry), the weight or the uncertainties it was given, and what the call
\* gave (res).  Several calls on the same X, Y: calls, one record for each
\* call made so far, in the order they were made.  nu is the call's local nu
\* once it is set: <<>> before, <<nu>> after.
VARIABLES X, Y, intercept, entry, Wx, sX, sY, res, calls, nu

vars == <<X, Y, intercept, entry, Wx, sX, sY, res, calls, nu>>

NoCall ==
    [kind |-> "none", exc |-> "none", at |-> "none", stage |-> "none",
     rmse |-> NoNum, out |-> NoOut]

Init ==
    /\ \E xy \in (Lists \X Lists) \cup Examples \cup NestedPairs : X = xy[1] /\ Y = xy[2]
    /\ intercept \in Flags
    /\ entry = "none"
    /\ Wx = Fin(QZero)
    /\ sX = 0
    /\ sY = 0
    /\ res = NoCall
    /\ calls = <<>>
    /\ nu = <<>>

\* RegressConsensusW(X, Y, Wx=w, intercept=intercept)
CallW ==
    /\ entry = "none"
    /\ \E w \in WxVals :
         /\ Wx' = w
         /\ res' = RegressConsensusW(X, Y, w, intercept)
         /\ nu' = IF ValidateW(X, Y, w, intercept) = "ok"
                  THEN <<Nu(Len(CleanX(X, Y)), intercept)>> ELSE <<>>
    /\ entry' = "W"
    /\ UNCHANGED <<X, Y, intercept, sX, sY, calls>>

\* RegressConsensus(X, Y, sX, sY, intercept=intercept)
CallU ==
    /\ entry = "none"
    /\ \E s \in Sigmas, t \in Sigmas :
         /\ sX' = s
         /\ sY' = t
         /\ res' = RegressConsensus(X, Y, s, t, intercept)
    /\ nu' = IF ValidateU(X, Y, intercept) = "ok"
             THEN <<Nu(Len(CleanX(X, Y)), intercept)>> ELSE <<>>
    /\ entry' = "U"
    /\ UNCHANGED <<X, Y, intercept, Wx, calls>>

Next == CallW \/ CallU

Spec == Init /\ [][Next]_vars

\* The calls that come to the fit as far as the lists go: X and Y are flat,
\* of the same length, at least 2 long.  The lists are the enumerated lists
\* of numbers (a list with NaN pairs is fitted as the list without them), the
\* worked inputs, which keep their NaN, and two X (FitX) with every Y of
\* their length made of the numbers 0, 1, 2.
FitX == {<<0, 1, 2>>, <<2, 0, 2>>}

FitData ==
    {xy \in (Lists \X Lists) \cup Examples :
        /\ ValidateU(xy[1], xy[2], 1) = "ok"
        /\ \/ xy \in Examples
           \/ \A k \in 1 .. Len(xy[1]) : ~is_nan(xy[1][k]) /\ ~is_nan(xy[2][k])}
      \cup UNION {{x} \X SeqsOfLen({0, 1, 2}, Len(x)) : x \in FitX}

InitFit ==
    /\ \E xy \in FitData : X = xy[1] /\ Y = xy[2]
    /\ intercept \in Flags
    /\ entry = "none"
    /\ Wx = Fin(QZero)
    /\ sX = 0
    /\ sY = 0
    /\ res = NoCall
    /\ calls = <<>>
    /\ nu = <<>>

SpecFit == InitFit /\ [][Next]_vars

\* The calls on data that hold a NaN: the caller's X and Y have a pair with
\* a NaN in it.
InitNaN ==
    /\ Init
    /\ \E k \in 1 .. Min(Len(X), Len(Y)) : is_nan(X[k]) \/ is_nan(Y[k])

SpecNaN == InitNaN /\ [][Next]_vars

\* --------------------------------------------- several calls on the same data
\* Calls on the same lists X, Y, made one after the other or running at the
\* same time (threads).  A call goes through the statements of its entry
\* point in three steps: coercion and checks, cleaning, fit.  Its names X, Y
\* are local (lx, ly); the entry points read and write nothing else.

\* the arguments of a call: an accepted and a refused weight, uncertainties
\* that give a weight and uncertainties that give none
CallArgs ==
    {[entry |-> "W", Wx |-> Fin(QHalf), sX |-> 0, sY |-> 0, intercept |-> 1],
     [entry |-> "W", Wx |-> Fin(QRat(3, 2)), sX |-> 0, sY |-> 0,
      intercept |-> 1],
     [entry |-> "U", Wx |-> Fin(QZero), sX |-> 1, sY |-> 1, intercept |-> 0],
     [entry |-> "U", Wx |-> Fin(QZero), sX |-> 0, sY |-> 0, intercept |-> 1]}

\* the lists the calls are made on
CallData ==
    {<<<<0, 1, 2>>, <<0, 1, 1>>>>, <<<<0, 1, NaN, 2>>, <<0, 2, 1, 1>>>>,
     <<<<1, NaN>>, <<1, 0>>>>, <<<<1, 2, 3>>, <<1, 2>>>>,
     <<<<SubTuple, 0, 1, 2>>, <<NaN, 2, 0, 1>>>>}

\* the checks of the entry point called
ValidateOf(arg, lx, ly) ==
    IF arg.entry = "W" THEN ValidateW(lx, ly, arg.Wx, arg.intercept)
    ELSE ValidateU(lx, ly, arg.intercept)

\* the statements after cleaning of the entry point called
FitOf(arg, lx, ly) ==
    IF arg.entry = "W" THEN Fit(lx, ly, arg.Wx, FALSE, arg.intercept)
    ELSE Fit(lx, ly,
             IF Len(lx) = 0 THEN NaNf
             ELSE WeightFromSigma(lx, ly, arg.sX, arg.sY),
             TRUE, arg.intercept)

\* a different rule, for comparison with Rebound: the cleaning done in the
\* caller's list (X[:] = ...)
CleanedInPlace(callers, cleaned) == cleaned

\* X = [v for (v, b) in zip(X, boo) if b] binds the local name to a new list:
\* the caller's list is what it was
Rebound(callers, cleaned) == callers

\* X = list(X), Y = list(Y), then the checks: a call is made with arguments
\* arg; it copies the caller's lists and is refused, or goes on
EnterCall ==
    /\ Len(calls) < MaxCalls
    /\ \E arg \in CallArgs :
         calls' = Append(calls,
             [arg |-> arg, X0 |-> X, Y0 |-> Y,
              lx |-> IF ValidateOf(arg, X, Y) = "ok" THEN X ELSE <<>>,
              ly |-> IF ValidateOf(arg, X, Y) = "ok" THEN Y ELSE <<>>,
              pc |-> IF ValidateOf(arg, X, Y) = "ok" THEN "checked"
                     ELSE "done",
              res |-> IF ValidateOf(arg, X, Y) = "ok" THEN NoCall
                      ELSE Raise("ValueError", ValidateOf(arg, X, Y),
                                 "validation", NoNum)])
    /\ UNCHANGED <<X, Y, intercept, entry, Wx, sX, sY, res, nu>>

\* boo, then X = [...], Y = [...]: call c cleans its lists
CleanCall(c) ==
    /\ calls[c].pc = "checked"
    /\ calls' = [calls EXCEPT ![c].lx = CleanX(calls[c].lx, calls[c].ly),
                              ![c].ly = CleanY(calls[c].lx, calls[c].ly),
                              ![c].pc = "cleaned"]
    /\ X' = Rebound(X, CleanX(calls[c].lx, calls[c].ly))
    /\ Y' = Rebound(Y, CleanY(calls[c].lx, calls[c].ly))
    /\ UNCHANGED <<intercept, entry, Wx, sX, sY, res, nu>>

\* the statements from n = len(X) to return out: call c ends
FitCall(c) ==
    /\ calls[c].pc = "cleaned"
    /\ calls' = [calls EXCEPT ![c].res = FitOf(calls[c].arg, calls[c].lx,
                                              calls[c].ly),
                              ![c].lx = <<>>, ![c].ly = <<>>,
                              ![c].pc = "done"]
    /\ UNCHANGED <<X, Y, intercept, entry, Wx, sX, sY, res, nu>>

InitCalls ==
    /\ \E xy \in CallData : X = xy[1] /\ Y = xy[2]
    /\ intercept = 1
    /\ entry = "none"
    /\ Wx = Fin(QZero)
    /\ sX = 0
    /\ sY = 0
    /\ res = NoCall
    /\ calls = <<>>
    /\ nu = <<>>

NextCalls ==
    \/ EnterCall
    \/ \E c \in 1 .. Len(calls) : CleanCall(c)
    \/ \E c \in 1 .. Len(calls) : FitCall(c)

SpecCalls == InitCalls /\ [][NextCalls]_vars

\* ------------------------------------------------- what the claims speak of
\* a call has been made
Called == entry # "none"

\* every check of the called entry point passed
Validated ==
    /\ Called
    /\ IF entry = "W" THEN ValidateW(X, Y, Wx, intercept) = "ok"
       ELSE ValidateU(X, Y, intercept) = "ok"

Returned == Called /\ res.kind = "return"

Raised == Called /\ res.kind = "raise"

\* the failure category InvalidInput: a ValueError raised by a check
InvalidInput ==
    Raised /\ res.exc = "ValueError" /\ res.stage = "validation"
           /\ res.out = NoOut

\* the number of pairs left after cleaning
nClean == Len(CleanX(X, Y))

\* some element of s is itself a sequence, of whatever kind
Nested(s) == \E i \in 1 .. Len(s) : NotNumber(s[i])

\* the cleaned data are numbers on one line that is neither flat nor upright
Collinear ==
    LET Xc   == CleanX(X, Y)
        Yc   == CleanY(X, Y)
        n    == Len(Xc)
        Sx   == SeqSum(Xc)
        Sy   == SeqSum(Yc)
        num  == n * SeqSum([i \in 1 .. n |-> Xc[i] * Yc[i]]) - Sx * Sy
        den  == n * SeqSum([i \in 1 .. n |-> Xc[i] * Xc[i]]) - Sx * Sx
        deny == n * SeqSum([i \in 1 .. n |-> Yc[i] * Yc[i]]) - Sy * Sy
    IN  /\ ~Nested(Xc) /\ ~Nested(Yc)
        /\ den > 0 /\ deny > 0 /\ num * num = den * deny

\* s without its k-th element
Remove(s, k) == SubSeq(s, 1, k - 1) \o SubSeq(s, k + 1, Len(s))

\* the positions of X, Y that hold a pair of numbers with a NaN in it
NaNPairs ==
    {k \in 1 .. Min(Len(X), Len(Y)) :
        /\ is_nan(X[k]) \/ is_nan(Y[k])
        /\ ~NotNumber(X[k]) /\ ~NotNumber(Y[k])}

\* the positions that hold a pair without a NaN
GoodPairs ==
    {k \in 1 .. Min(Len(X), Len(Y)) : ~is_nan(X[k]) /\ ~is_nan(Y[k])}

\* what the entry point of this call gives on other data, all else the same
CallOn(Xr, Yr) ==
    IF entry = "W" THEN RegressConsensusW(Xr, Yr, Wx, intercept)
    ELSE RegressConsensus(Xr, Yr, sX, sY, intercept)

\* the weight of X the fit is made with: the argument of RegressConsensusW,
\* or the weight RegressConsensus derives from sX, sY and the cleaned data
WxUsed ==
    IF entry = "W" THEN Wx
    ELSE IF nClean = 0 THEN NaNf
    ELSE WeightFromSigma(CleanX(X, Y), CleanY(X, Y), sX, sY)

\* n * sum(u * v) - sum(u) * sum(v)
CrossDev(u, v) ==
    Len(u) * SeqSum([i \in 1 .. Len(u) |-> u[i] * v[i]])
        - SeqSum(u) * SeqSum(v)

\* the ordinary least-squares slope of v on u
OLSSlope(u, v) == QRat(CrossDev(u, v), CrossDev(u, u))

\* the mean of u
Mean(u) == QRat(SeqSum(u), Len(u))

\* the sign of the Pearson correlation R of the cleaned data: that of
\* n * Sxy - Sx * Sy, the divisor of R being positive
SignR == Sgn(CrossDev(CleanX(X, Y), CleanY(X, Y)))

\* sum(u * u)
SumSq(u) == SeqSum([i \in 1 .. Len(u) |-> u[i] * u[i]])

\* a call of RegressConsensus that came to derive the weight: validated, and
\* nothing raised by the statements before
WeightDerived ==
    /\ entry = "U" /\ Validated
    /\ res.at \notin {"Sx", "Sy", "mx", "R"}

\* sX^2 / Var(u), Var(u) the mean squared deviation from the mean:
\* (n * sum(u^2) - sum(u)^2) / n^2
OverVar(sigma, u) == QRat(sigma * sigma * Len(u) * Len(u), CrossDev(u, u))

\* the weights RegressConsensusW accepts
WxAccepted == {w \in WxVals : ~WxOutOfRange(w)}

\* the calls made so far, and those that have ended
Made == 1 .. Len(calls)

Ended == {c \in Made : calls[c].pc = "done"}

\* what a call with arguments arg gives on the lists Xr, Yr when it is the
\* only call made
Alone(arg, Xr, Yr) ==
    IF arg.entry = "W" THEN RegressConsensusW(Xr, Yr, arg.Wx, arg.intercept)
    ELSE RegressConsensus(Xr, Yr, arg.sX, arg.sY, arg.intercept)

\* t is the quotient x / y of two fields of a result, y >= 0: the exact
\* quotient where y is exact and not 0, the IEEE-754 quotient (inf, -inf,
\* nan) where y is 0, and of the sign of x where y is an irrational
IsQuotient(t, x, y) ==
    IF y.k = "fin" /\ ~QIsZero(y.v)
    THEN t.k = "fin" /\ QMul(t.v, y.v) = x.v
    ELSE IF y.k = "fin"
    THEN t = (IF QIsZero(x.v) THEN NaNf
              ELSE IF QSign(x.v) > 0 THEN PInf ELSE NInf)
    ELSE t.k \in {"fin", "irr"} /\ NumSign(t) = QSign(x.v)

\* the residual degrees of freedom as the spec has them, n the number of
\* pairs of X, Y without a NaN
NuSpec ==
    IF intercept = 0 THEN Cardinality(GoodPairs) - 1
    ELSE Cardinality(GoodPairs) - 2

\* the sum of the squared residuals of the cleaned data about the returned
\* line
SSRes ==
    QSum([i \in 1 .. nClean |->
            QSq(QSub(QInt(CleanY(X, Y)[i]),
                     QAdd(res.out.intercept.v,
                          QMul(res.out.slope.v, QInt(CleanX(X, Y)[i])))))])

\* the sum of the residuals y - (a + b * x) of the cleaned data about the
\* returned line
SumRes ==
    QSum([i \in 1 .. nClean |->
            QSub(QInt(CleanY(X, Y)[i]),
                 QAdd(res.out.intercept.v,
                      QMul(res.out.slope.v, QInt(CleanX(X, Y)[i]))))])

\* |t| of a t-value
AbsNum(t) ==
    IF t.k = "fin" THEN (IF QSign(t.v) < 0 THEN Fin(QNeg(t.v)) ELSE t)
    ELSE IF t.k = "inf" THEN PInf
    ELSE IF t.k = "irr" THEN Irr("pos")
    ELSE t

\* the two-sided p-value 2 * (1 - tCDF(dof, |t|))
TwoSided(dof, t) == Twice(OneMinus(stdtr(dof, AbsNum(t))))

\* p is a probability: a value in [0, 1]
InUnit(p) ==
    \/ p.k = "fin" /\ ~QLess(p.v, QZero) /\ ~QLess(QOne, p.v)
    \/ p.k = "irr" /\ p.c \in {"unit", "lohalf", "hihalf", "0|nan", "1|nan",
                                "below1"}

\* the float x is the number q, up to the rounding of the last place
IsAbout(x, q) ==
    \/ x = Fin(q)
    \/ x.k = "irr" /\ x.c \in {"above1", "below1", "near1"} /\ q = QOne

\* the population variance of u (divide by n): (n * sum(u^2) - sum(u)^2) / n^2
PopVar(u) == QRat(CrossDev(u, u), Len(u) * Len(u))

\* the sample variance of u (divide by n - 1), n >= 2
SampleVar(u) == QRat(CrossDev(u, u), Len(u) * (Len(u) - 1))

\* sX^2 * vy / (sX^2 * vy + sY^2 * vx), vx and vy the variances of X and Y
RatioWeight(vx, vy) ==
    QDiv(QMul(QInt(sX * sX), vy),
         QAdd(QMul(QInt(sX * sX), vy), QMul(QInt(sY * sY), vx)))

\* the squared Pearson correlation of u and v:
\* (n Suv - Su Sv)^2 / [(n Su2 - Su^2) (n Sv2 - Sv^2)]
PearsonSq(u, v) ==
    QRat(CrossDev(u, v) * CrossDev(u, v), CrossDev(u, u) * CrossDev(v, v))

\* the call came to compute a slope b from a weight that is a number: it was
\* validated and none of the statements up to the slope raised
SlopeProduced ==
    /\ Validated
    /\ res.at \notin {"Sx", "Sy", "mx", "R", "b"}
    /\ WxUsed.k = "fin"

\* the local b of such a call, whether or not a later statement raised
LocalSlope ==
    Slope(Moments(Sums(CleanX(X, Y), CleanY(X, Y))),
          Corr(Moments(Sums(CleanX(X, Y), CleanY(X, Y)))), WxUsed, intercept)

\* sb^2 = n * s2 / den with the recomputed s2 = sum(r^2) / nu, from the
\* returned line
SlopeErrSq ==
    QDiv(QMul(QInt(nClean), QDiv(SSRes, QInt(NuSpec))),
         QInt(CrossDev(CleanX(X, Y), CleanX(X, Y))))

\* the first check the call's arguments violate, in the order flatness of X,
\* flatness of Y, count, equal lengths, weight (RegressConsensusW only),
\* flag; "none" when they violate none
FirstViolated ==
    IF \E i \in 1 .. Len(X) : IsList(X[i]) THEN "flatX"
    ELSE IF \E i \in 1 .. Len(Y) : IsList(Y[i]) THEN "flatY"
    ELSE IF Len(X) < 2 \/ Len(Y) < 2 THEN "obs"
    ELSE IF Len(X) # Len(Y) THEN "equal"
    ELSE IF entry = "W" /\ Wx.k = "fin"
              /\ (QLess(Wx.v, QZero) \/ QLess(QOne, Wx.v)) THEN "Wx"
    ELSE IF intercept # 0 /\ intercept # 1 THEN "intercept"
    ELSE "none"

\* the data came to the slope with non-zero X and Y variance
HasVariance ==
    /\ Validated
    /\ res.at \notin {"Sx", "Sy", "mx", "R"}

\* the closed form of the last else of the slope (intercept estimated),
\* lines 175-180, evaluated at the weight w on the cleaned data
GeneralAt(w) ==
    SlopeFreeGeneral(w, QSub(QOne, w), SignR,
                     CrossDev(CleanX(X, Y), CleanY(X, Y)),
                     CrossDev(CleanX(X, Y), CleanX(X, Y)),
                     CrossDev(CleanY(X, Y), CleanY(X, Y)))

\* ----------------------------------------------------------------- the claims
\* C1 (as stated): every validated call returns a result, degenerate data
\* included; none raises.  The model refutes it: with all X equal, all Y
\* equal, one pair or no pair left the call raises ZeroDivisionError.
C1_ValidatedCallReturns == Validated => Returned

\* C2 (as stated): collinear data of at least 3 pairs, fitted with a free
\* intercept, give a result with r2 = 1, F = +infinity and a slope p-value
\* of 0.  The model refutes it: tb = b/sb raises with sb = 0.0.
C2_PerfectFitReturns ==
    (Validated /\ intercept = 1 /\ nClean >= 3 /\ Collinear)
        => /\ Returned
           /\ res.out.r2 = Fin(QOne)
           /\ res.out.F = PInf
           /\ res.out.spvalue \in {Fin(QZero), Irr("0|nan")}

\* C3 (as stated): two valid pairs fitted with a free intercept give
\* rmse = +infinity and the call completes.  The model refutes it: rmse is
\* set, then r2_adj divides n - 1 by n - k - 1 = 0.
C3_TwoPairsComplete ==
    (Validated /\ intercept = 1 /\ nClean = 2)
        => (Returned /\ res.rmse = PInf)

\* C4 (as stated): whatever a call raises is a ValueError raised by a check,
\* before cleaning and before any statistic.  The model refutes it.
C4_OnlyValidationRaises ==
    Raised => (res.exc = "ValueError" /\ res.stage = "validation")

\* C5 (as stated): a validated call that keeps fewer than 2 pairs after
\* cleaning raises nothing.  The model refutes it.
C5_FewPairsLeftNoError == (Validated /\ nClean < 2) => ~Raised

\* C6 (amended): take any pair of X, Y that holds a NaN.  If X and Y
\* without that pair still have at least 2 elements each, the call gives
\* exactly what the same entry point gives on X, Y without the pair (the same
\* result, or the same error at the same place).  After validation a pair is
\* kept iff both its values are numbers, and the kept pairs keep their order.
C6_NaNPairDropped ==
    Called =>
        /\ \A k \in NaNPairs :
              (Len(Remove(X, k)) >= 2 /\ Len(Remove(Y, k)) >= 2)
                  => res = CallOn(Remove(X, k), Remove(Y, k))
        /\ Validated =>
              /\ nClean = Cardinality(GoodPairs)
              /\ \A i \in GoodPairs :
                    LET j == Cardinality({g \in GoodPairs : g <= i})
                    IN  CleanX(X, Y)[j] = X[i] /\ CleanY(X, Y)[j] = Y[i]

\* C6: a call that returned a fit of data holding a NaN pair, at least
\* 2 elements remaining without it
C6_Witness ==
    /\ Returned
    /\ \E k \in NaNPairs : Len(Remove(X, k)) >= 2 /\ Len(Remove(Y, k)) >= 2

\* C6 (as stated): the same without the condition on what remains.  The
\* model refutes it: X = [1, NaN], Y = [1, 0] passes the checks (and then
\* raises ZeroDivisionError) while X = [1], Y = [1] is refused by them.
C6_NaNPairDroppedAlways ==
    Called => \A k \in NaNPairs : res = CallOn(Remove(X, k), Remove(Y, k))

\* C7: X and Y of different lengths make either entry point fail with a
\* ValueError of a check, and no result is returned.
C7_LengthMismatchRefused == (Called /\ Len(X) # Len(Y)) => InvalidInput

\* C7: X = [1, 2, 3], Y = [1, 2] refused by the check of equal lengths
C7_Witness ==
    Called /\ X = <<1, 2, 3>> /\ Y = <<1, 2>> /\ InvalidInput
           /\ res.at = "equal"

\* C8: a raw X or Y of fewer than 2 elements makes either entry point fail
\* with a ValueError of a check, that of the count when no element is a
\* list; a raw X and Y of 2 or more elements each pass the check of the
\* count whatever NaN they hold.
C8_TooFewRefused ==
    Called =>
        /\ (Len(X) < 2 \/ Len(Y) < 2) => InvalidInput
        /\ ((Len(X) < 2 \/ Len(Y) < 2) /\ ~HasSublist(X) /\ ~HasSublist(Y))
              => res.at = "obs"
        /\ (Len(X) >= 2 /\ Len(Y) >= 2) => res.at # "obs"

\* C8: a one-element X refused, whatever Y
C8_Witness == Called /\ Len(X) = 1 /\ Len(Y) >= 2 /\ res.at = "obs"

\* C9 (as stated): RegressConsensusW fails with the ValueError of the weight
\* exactly when the data pass the checks before it and Wx is not in
\* [0, 1].  The model refutes it: a NaN weight is in no interval, and passes.
C9_WeightOutsideRefused ==
    entry = "W" =>
        ((InvalidInput /\ res.at = "Wx")
            <=> /\ ~HasSublist(X) /\ ~HasSublist(Y)
                /\ Len(X) >= 2 /\ Len(Y) >= 2 /\ Len(X) = Len(Y)
                /\ ~(Wx.k = "fin" /\ ~QLess(Wx.v, QZero)
                                  /\ ~QLess(QOne, Wx.v)))

\* C10: a flag that is neither 1 nor 0 makes either entry point fail with a
\* ValueError of a check; a validated call takes exactly one of the two
\* branches, so none reaches yhat with b or a unbound, and every returned
\* result holds a slope and an intercept.
C10_InterceptFlag ==
    Called =>
        /\ (intercept # 1 /\ intercept # 0) => InvalidInput
        /\ Validated =>
              /\ Branch(intercept) \in {"origin", "free"}
              /\ res.exc # "NameError"
        /\ Returned =>
              /\ res.out.slope.k # "none"
              /\ res.out.intercept.k # "none"

\* C10: the flag 2 refused by the check of the flag
C10_Witness ==
    Called /\ intercept = 2 /\ InvalidInput /\ res.at = "intercept"

\* C11 (as stated): whenever an element of X or of Y is itself a sequence, of
\* whatever kind, the call fails with a ValueError of a check.  The model
\* refutes it: only list elements are looked for, so X = [(1, 2), 3, 4] passes
\* the checks and Sx = sum(X) raises TypeError.
C11_NestedRefused == (Called /\ (Nested(X) \/ Nested(Y))) => InvalidInput

\* C12: a fit returned for Wx = 0 with the intercept estimated has the slope
\* (n Sxy - Sx Sy) / (n Sx2 - Sx^2) of the least-squares regression of Y on X
\* over the cleaned data, and the intercept mean(Y) - slope * mean(X).
C12_OLSofYonX ==
    (Returned /\ intercept = 1 /\ IsWx(WxUsed, QZero))
        => /\ res.out.slope = Fin(OLSSlope(CleanX(X, Y), CleanY(X, Y)))
           /\ res.out.intercept
                 = Fin(QSub(Mean(CleanY(X, Y)),
                            QMul(OLSSlope(CleanX(X, Y), CleanY(X, Y)),
                                 Mean(CleanX(X, Y)))))

\* C12: X = [0, 1, 2], Y = [2, 0, 1] fitted with Wx = 0 and a free
\* intercept: slope -1/2, intercept 3/2
C12_Witness ==
    /\ Returned /\ entry = "W" /\ IsWx(Wx, QZero) /\ intercept = 1
    /\ X = <<0, 1, 2>> /\ Y = <<2, 0, 1>>
    /\ res.out.slope = Fin(QRat(-1, 2))
    /\ res.out.intercept = Fin(QRat(3, 2))

\* C13: a fit returned for Wx = 1 with the intercept estimated has the slope
\* (n Sy2 - Sy^2) / (n Sxy - Sx Sy), the reciprocal of the least-squares
\* slope of X on Y over the cleaned data, and its line passes through
\* (mean(X), mean(Y)).
C13_OLSofXonYInverted ==
    (Returned /\ intercept = 1 /\ IsWx(WxUsed, QOne))
        => /\ res.out.slope
                 = Fin(QRat(CrossDev(CleanY(X, Y), CleanY(X, Y)),
                            CrossDev(CleanX(X, Y), CleanY(X, Y))))
           /\ res.out.slope
                 = Fin(QInv(OLSSlope(CleanY(X, Y), CleanX(X, Y))))
           /\ res.out.intercept.k = "fin"
           /\ QAdd(res.out.intercept.v,
                   QMul(res.out.slope.v, Mean(CleanX(X, Y))))
                 = Mean(CleanY(X, Y))

\* C13: X = [0, 1, 2], Y = [2, 0, 1] fitted with Wx = 1 and a free
\* intercept: slope -2, intercept 3
C13_Witness ==
    /\ Returned /\ entry = "W" /\ IsWx(Wx, QOne) /\ intercept = 1
    /\ X = <<0, 1, 2>> /\ Y = <<2, 0, 1>>
    /\ res.out.slope = Fin(QInt(-2))
    /\ res.out.intercept = Fin(QInt(3))

\* C14 (amended): a fit returned for Wx = 0.5 has a slope of the sign of R,
\* 0 when R = 0; when R is not 0 its magnitude is
\* sqrt[(n Sy2 - Sy^2) / (n Sx2 - Sx^2)] with the intercept estimated and
\* sqrt[Sy2 / Sx2] with the intercept forced to 0, the sums taken over the
\* cleaned data.
C14_ModelIISlope ==
    (Returned /\ IsWx(WxUsed, QHalf))
        => /\ res.out.slope.k = "fin"
           /\ QSign(res.out.slope.v) = SignR
           /\ SignR # 0 =>
                 QSq(res.out.slope.v)
                   = IF intercept = 1
                     THEN QRat(CrossDev(CleanY(X, Y), CleanY(X, Y)),
                               CrossDev(CleanX(X, Y), CleanX(X, Y)))
                     ELSE QRat(SumSq(CleanY(X, Y)), SumSq(CleanX(X, Y)))

\* C14: X = [0, 1, 2], Y = [2, 0, 1] fitted with Wx = 0.5 and a free
\* intercept: R < 0 and slope -1 = -sqrt(6/6)
C14_Witness ==
    /\ Returned /\ entry = "W" /\ IsWx(Wx, QHalf) /\ intercept = 1
    /\ X = <<0, 1, 2>> /\ Y = <<2, 0, 1>>
    /\ SignR = -1
    /\ res.out.slope = Fin(QInt(-1))

\* C14 (as stated): every fit returned for Wx = 0.5, whatever the flag, has
\* a slope of the sign of R and of magnitude
\* sqrt[(n Sy2 - Sy^2) / (n Sx2 - Sx^2)].  The model refutes it: with the
\* intercept forced to 0 the magnitude is sqrt[Sy2 / Sx2], and with R = 0
\* the slope is 0.
C14_ModelIISlopeAnyFlag ==
    (Returned /\ IsWx(WxUsed, QHalf))
        => /\ res.out.slope.k = "fin"
           /\ QSign(res.out.slope.v) = SignR
           /\ QSq(res.out.slope.v)
                 = QRat(CrossDev(CleanY(X, Y), CleanY(X, Y)),
                        CrossDev(CleanX(X, Y), CleanX(X, Y)))

\* C15 (as stated): the weight RegressConsensus derives is a number with
\* 0 <= Wx <= 1, equal to (sX^2/Var(X)) / (sX^2/Var(X) + sY^2/Var(Y)) over
\* the cleaned data, for any sX, sY, sX = sY = 0 included.  The model refutes
\* it: sX = sY = 0 gives 0.0 / 0.0, a NaN.
C15_DerivedWeightInUnit ==
    WeightDerived
        => /\ WxUsed.k = "fin"
           /\ ~QLess(WxUsed.v, QZero) /\ ~QLess(QOne, WxUsed.v)
           /\ WxUsed.v
                 = QDiv(OverVar(sX, CleanX(X, Y)),
                        QAdd(OverVar(sX, CleanX(X, Y)),
                             OverVar(sY, CleanY(X, Y))))

\* C16 (as stated): a call of RegressConsensus gives what RegressConsensusW
\* gives on the same X, Y and flag with Wx the weight derived from sX, sY and
\* the cleaned data: the same 12 fields, or the same error at the same place;
\* where the call ends before a weight is derived, RegressConsensusW ends
\* the same way for every weight it accepts.  The model refutes it: the
\* derived weight is a numpy.float64, and so is the slope computed from it
\* in the last else of the slope, so that b/sb with sb = 0.0 gives inf where
\* RegressConsensusW, dividing a float, raises ZeroDivisionError.
C16_SameCore ==
    entry = "U" =>
        IF WeightDerived
        THEN res = RegressConsensusW(X, Y, WxUsed, intercept)
        ELSE \A w \in WxAccepted : res = RegressConsensusW(X, Y, w, intercept)

\* C17: two calls made with the same arguments on the caller's X, Y give the
\* same outcome, the same fields or the same error at the same place,
\* whatever other calls were made before, between or during them.
C17_Deterministic ==
    \A c \in Ended, d \in Ended :
        calls[c].arg = calls[d].arg => calls[c].res = calls[d].res

\* C17: the first and the third call have the same arguments and returned a
\* fit, a call with other arguments was made between them and has ended
C17_Witness ==
    /\ Ended = {1, 2, 3}
    /\ calls[1].arg = calls[3].arg
    /\ calls[2].arg # calls[1].arg
    /\ calls[1].res.kind = "return"
    /\ calls[3].res.kind = "return"

C19_InterceptTests ==
    (Returned /\ WxUsed.k = "fin")
        => /\ res.out.slope.k = "fin"
           /\ IsQuotient(res.out.stvalue, res.out.slope, res.out.sse)
           /\ intercept = 0 =>
                 /\ res.out.intercept = Fin(QZero)
                 /\ res.out.ise = Fin(QZero)
                 /\ res.out.itvalue = PInf
           /\ intercept = 1 =>
                 /\ res.out.intercept.k = "fin"
                 /\ IsQuotient(res.out.itvalue, res.out.intercept,
                               res.out.ise)

\* C19: X = [0, 1, 2], Y = [0, 1, 1] fitted through the origin with
\* Wx = 0: slope 3/5 with a positive t-value, intercept t-value +infinity
C19_Witness ==
    /\ Returned /\ entry = "W" /\ IsWx(Wx, QZero) /\ intercept = 0
    /\ X = <<0, 1, 2>> /\ Y = <<0, 1, 1>>
    /\ res.out.slope = Fin(QRat(3, 5))
    /\ NumSign(res.out.stvalue) = 1
    /\ res.out.ise = Fin(QZero)
    /\ res.out.itvalue = PInf

\* C20: in every validated call the residual degrees of freedom are
\* nu = n - 1 with the intercept forced to 0 and nu = n - 2 with the intercept
\* estimated, n the number of pairs left by the cleaning, not the length of
\* the raw lists; the rmse of a returned fit is that of this nu,
\* rmse^2 = SSres / nu, where its value is exact.
C20_DegreesOfFreedom ==
    /\ Validated => nu = <<NuSpec>>
    /\ (Called /\ ~Validated) => nu = <<>>
    /\ (Returned /\ res.out.slope.k = "fin" /\ res.rmse.k = "fin")
          => QMul(QInt(NuSpec), QSq(res.rmse.v)) = SSRes

\* C20: X = [0, 1, NaN, 2], Y = [0, 2, 1, 1], 4 raw pairs of which 3 are
\* left, fitted with a free intercept: nu = 1
C20_Witness ==
    /\ Returned /\ intercept = 1
    /\ X = <<0, 1, NaN, 2>> /\ Y = <<0, 2, 1, 1>>
    /\ nu = <<1>>

\* C21: a fit returned with the intercept estimated, for a weight in [0, 1]
\* of whatever branch (0, 1, 0.5, other), has the intercept
\* a = mean(Y) - b * mean(X) over the cleaned data: the line passes through
\* (mean(X), mean(Y)) and the residuals y - (a + b * x) sum to zero.
C21_ThroughCentroid ==
    (Returned /\ intercept = 1 /\ WxUsed.k = "fin")
        => /\ res.out.slope.k = "fin" /\ res.out.intercept.k = "fin"
           /\ res.out.intercept.v
                 = QSub(Mean(CleanY(X, Y)),
                        QMul(res.out.slope.v, Mean(CleanX(X, Y))))
           /\ QAdd(res.out.intercept.v,
                   QMul(res.out.slope.v, Mean(CleanX(X, Y))))
                 = Mean(CleanY(X, Y))
           /\ SumRes = QZero

\* C21: X = [0, 1, 2], Y = [0, 1, 1] fitted with Wx = 1/4 (the last else of
\* the slope) and a free intercept: an irrational slope, mean(X) not 0
C21_Witness ==
    /\ Returned /\ entry = "W" /\ IsWx(Wx, QRat(1, 4)) /\ intercept = 1
    /\ X = <<0, 1, 2>> /\ Y = <<0, 1, 1>>
    /\ ~QIsRat(res.out.slope.v)
    /\ SumRes = QZero

\* C22 (as stated): in every returned fit whose t-values are numbers, the
\* slope and intercept p-values are 2 * (1 - tCDF(nu, |t|)): the same for t
\* and -t, and in [0, 1].  The model refutes it: the code hands the signed
\* t-value to stdtr, so a negative slope gets a p-value between 1 and 2.
C22_TwoSidedPValues ==
    (Returned /\ WxUsed.k = "fin")
        => /\ res.out.stvalue.k \in {"fin", "irr"}
                 => /\ InUnit(res.out.spvalue)
                    /\ res.out.spvalue = TwoSided(NuSpec, res.out.stvalue)
           /\ (intercept = 1 /\ res.out.itvalue.k \in {"fin", "irr"})
                 => /\ InUnit(res.out.ipvalue)
                    /\ res.out.ipvalue = TwoSided(NuSpec, res.out.itvalue)

\* C23 (as stated): in every fit returned with the intercept estimated the
\* regression p-value and the slope p-value are equal, for a rising and for a
\* falling line.  The model refutes it: for a falling line the slope p-value
\* is 2 * (1 - tCDF(nu, t)) with t < 0, above 1, and the regression p-value
\* is below 1.
C23_RegressionPIsSlopeP ==
    (Returned /\ intercept = 1 /\ WxUsed.k = "fin")
        => res.out.pvalue = res.out.spvalue

\* C24: in every validated call the numerator degrees of freedom of the F
\* statistic and of the regression p-value, n - nu - 1 with the intercept
\* estimated and n - nu with the intercept forced to 0, are exactly 1,
\* whatever the number n of pairs left by the cleaning; no call fails
\* dividing by them.
C24_NumeratorDofIsOne ==
    Validated
        => /\ Len(nu) = 1
           /\ Dof1(nClean, nu[1], intercept) = 1
           /\ res.at # "F"

\* C24: 4 pairs fitted through the origin: nu = 3, and an F statistic that
\* was computed by the division
C24_Witness ==
    /\ Returned /\ intercept = 0 /\ nClean = 4 /\ nu = <<3>>
    /\ res.out.F.k = "fin" /\ QSign(res.out.F.v) > 0

\* C25: where RegressConsensus derives the weight from sX, sY not both 0, it
\* is Wx = sX^2 Var(Y) / (sX^2 Var(Y) + sY^2 Var(X)) over the cleaned data,
\* the same with the population variance (divide by n) and with the sample
\* variance (divide by n - 1); sX = 0 gives Wx = 0 and sY = 0 gives Wx = 1.
C25_WeightFromVarianceRatio ==
    (WeightDerived /\ (sX # 0 \/ sY # 0))
        => /\ WxUsed
                 = Fin(RatioWeight(PopVar(CleanX(X, Y)), PopVar(CleanY(X, Y))))
           /\ WxUsed
                 = Fin(RatioWeight(SampleVar(CleanX(X, Y)),
                                   SampleVar(CleanY(X, Y))))
           /\ sX = 0 => WxUsed = Fin(QZero)
           /\ sY = 0 => WxUsed = Fin(QOne)

\* C25: X = [0, 1, 2], Y = [0, 1, 1] with sX = sY = 1: Var(X) = 3 Var(Y),
\* Wx = 1/4, and a fit returned
C25_Witness ==
    /\ Returned /\ entry = "U" /\ sX = 1 /\ sY = 1
    /\ X = <<0, 1, 2>> /\ Y = <<0, 1, 1>>
    /\ WxUsed = Fin(QRat(1, 4))

\* C26 (as stated): in every returned result r2 is the squared Pearson
\* correlation (n Sxy - Sx Sy)^2 / [(n Sx2 - Sx^2) (n Sy2 - Sy^2)] of the
\* cleaned data (up to rounding), whatever the weight and the flag, and
\* 0 <= r2 <= 1.  The
\* model refutes it: on data on one line R is divided by the product of two
\* rounded roots, not by the root of the product, and r2 comes out above 1.
C26_R2IsPearsonSquared ==
    Returned
        => /\ IsAbout(res.out.r2, PearsonSq(CleanX(X, Y), CleanY(X, Y)))
           /\ InUnit(res.out.r2)

\* C27: with the intercept estimated, every slope computed from a weight in
\* [0, 1] (Wx = 0, 1, 0.5 or other) on data of non-zero X and Y variance has
\* the sign of R, as a local b and as the slope returned: R = 0 gives slope
\* 0 for Wx = 0, 0.5 and in the last else, and no slope at all for Wx = 1.
C27_SlopeSignIsSignR ==
    (Validated /\ intercept = 1)
        => /\ SlopeProduced => QSign(LocalSlope) = SignR
           /\ (SlopeProduced /\ SignR = 0) => LocalSlope = QZero
           /\ (Returned /\ WxUsed.k = "fin")
                 => QSign(res.out.slope.v) = SignR
           /\ (SignR = 0 /\ IsWx(WxUsed, QOne)) => ~SlopeProduced

\* C27: X = [0, 1, 2], Y = [2, 0, 1] fitted with Wx = 1/4 and a free
\* intercept: R < 0 and a negative slope out of the last else
C27_Witness ==
    /\ Returned /\ entry = "W" /\ IsWx(Wx, QRat(1, 4)) /\ intercept = 1
    /\ X = <<0, 1, 2>> /\ Y = <<2, 0, 1>>
    /\ SignR = -1
    /\ QSign(res.out.slope.v) = -1

\* C28: a fit returned with the intercept estimated (so nu > 0), for a weight
\* in [0, 1] of whatever branch and residuals that are not all 0, has
\* F = tb^2 with tb = b / sb and sb^2 = n * (sum(r^2) / nu) / den: the
\* regression sum of squares is b^2 * den / n and both error variances are
\* sum(r^2) / nu.
C28_FIsSquaredT ==
    (Returned /\ intercept = 1 /\ WxUsed.k = "fin" /\ res.out.F.k = "fin")
        => /\ NuSpec > 0
           /\ ~QIsZero(SSRes)
           /\ QMul(res.out.F.v, SlopeErrSq) = QSq(res.out.slope.v)
           /\ QMul(res.out.F.v, QDiv(SSRes, QInt(NuSpec)))
                 = QDiv(QMul(QSq(res.out.slope.v),
                             QInt(CrossDev(CleanX(X, Y), CleanX(X, Y)))),
                        QInt(nClean))
           /\ res.out.stvalue.k = "fin"
                 => res.out.F.v = QSq(res.out.stvalue.v)

\* C28: X = [0, 1, 2], Y = [2, 0, 1] fitted with Wx = 0.5 and a free
\* intercept: slope -1, tb = -1 and F = 1
C28_Witness ==
    /\ Returned /\ entry = "W" /\ IsWx(Wx, QHalf) /\ intercept = 1
    /\ X = <<0, 1, 2>> /\ Y = <<2, 0, 1>>
    /\ res.out.stvalue = Fin(QInt(-1))
    /\ res.out.F = Fin(QOne)
    /\ QMul(res.out.F.v, SlopeErrSq) = QSq(res.out.slope.v)

\* C29: the checks run in the order flatness of X, flatness of Y, count,
\* equal lengths, weight (RegressConsensusW only), flag, and the first one
\* violated gives the error: a call fails with the ValueError of that check,
\* and with no ValueError of a check when none is violated.  So a one-element
\* X with a longer Y fails the count, and a weight outside [0, 1] is
\* reported before a bad flag.
C29_ChecksInOrder ==
    Called =>
        /\ FirstViolated # "none"
              => (InvalidInput /\ res.at = FirstViolated)
        /\ FirstViolated = "none" => ~InvalidInput
        /\ (Len(X) = 1 /\ Len(Y) = 3 /\ ~HasSublist(Y) /\ ~HasSublist(X))
              => res.at = "obs"
        /\ (InvalidInput /\ res.at = "intercept")
              => (entry = "W" => ~WxOutOfRange(Wx))

\* C29: RegressConsensusW called with Wx = 3/2 and the flag 2 on good lists:
\* refused for the weight
C29_Witness ==
    /\ Called /\ entry = "W" /\ Wx = Fin(QRat(3, 2)) /\ intercept = 2
    /\ X = <<0, 1, 2>> /\ Y = <<0, 1, 1>>
    /\ InvalidInput /\ res.at = "Wx"

\* C30: with the intercept estimated, on data of non-zero X and Y variance
\* the closed form of the last else of the slope gives at Wx = 0 the
\* least-squares slope (n Sxy - Sx Sy) / (n Sx2 - Sx^2) and at Wx = 0.5 the
\* slope sign(R) * sqrt[(n Sy2 - Sy^2) / (n Sx2 - Sx^2)]: what the branches
\* Wx = 0 and Wx = 0.5 compute and return.
C30_GeneralFormMeetsBranches ==
    (HasVariance /\ intercept = 1)
        => /\ GeneralAt(QZero) = OLSSlope(CleanX(X, Y), CleanY(X, Y))
           /\ GeneralAt(QHalf)
                 = QMul(QInt(SignR),
                        QSqrtRat(CrossDev(CleanY(X, Y), CleanY(X, Y)),
                                 CrossDev(CleanX(X, Y), CleanX(X, Y))))
           /\ (Returned /\ IsWx(WxUsed, QZero))
                 => res.out.slope = Fin(GeneralAt(QZero))
           /\ (Returned /\ IsWx(WxUsed, QHalf))
                 => res.out.slope = Fin(GeneralAt(QHalf))

\* C30: X = [0, 1, 2], Y = [0, 1, 1] fitted with Wx = 0.5 and a free
\* intercept returns the irrational slope sqrt(1/3), which is the closed
\* form at 0.5
C30_Witness ==
    /\ Returned /\ entry = "W" /\ IsWx(Wx, QHalf) /\ intercept = 1
    /\ X = <<0, 1, 2>> /\ Y = <<0, 1, 1>>
    /\ res.out.slope = Fin(QSqrtRat(1, 3))
    /\ GeneralAt(QHalf) = QSqrtRat(1, 3)

=============================================================================
